---- MODULE Spec2Model ----
(***************************************************************************)
(* Model of backend/app/main.py: the job store (tables jobs and job_logs), *)
(* the three report handlers (api_start, api_progress, api_complete), the  *)
(* two query handlers (api_jobs, api_job_logs) and the websocket           *)
(* ConnectionManager.                                                      *)
(*                                                                         *)
(* Scheduling.  The report handlers and the websocket handler are          *)
(* `async def`: they run on one event loop and give up control only at an  *)
(* `await` that really suspends.  The query handlers are plain `def`: the  *)
(* framework runs them on worker threads, so they can read the database    *)
(* between two commits of a report handler.  The send_text coroutines that *)
(* asyncio.gather wraps into tasks are started by the loop in the order    *)
(* they were created (sendQueue is that FIFO).                             *)
(*                                                                         *)
(* Optional values (None in Python) are sets: None is {}, a value v is {v}.*)
(***************************************************************************)
EXTENDS Integers, Sequences, FiniteSets, TLC

\* ------------------------------------------------------------------ bounds
MaxJobs      == 2   \* rows of table jobs
MaxLogs      == 3   \* rows of table job_logs
MaxTime      == 1   \* hours between the first and the last clock reading
MaxReports   == 3   \* start, progress and complete reports that find their job
MaxPublished == 3   \* broadcasts that find an observer registered
MaxInFlight  == 2   \* report handlers suspended in a broadcast
MaxPlays     == 2   \* plays of the playbook run the reporter follows
MaxTasks     == 2   \* tasks started in that run

\* ------------------------------------------------------------------ inputs
None    == {}
Some(v) == {v}
TheVal(o) == CHOOSE v \in o : TRUE

WebSockets     == {"ws1", "ws2"}
ManagerSockets == {"ws1", "ws2", "ws3", "ws4"}
JobNames       == {"Deploy"}
Scopes         == {"web"}
Users          == {"alice"}
ProgressInputs == {-5, 50, 150}
MessageInputs  == {"halfway"}
LevelInputs    == {Some("info"), Some("error"), None}
StatusInputs   == {"success", "failed", "bogus"}
RangeInputs    == {"24h", "7d", "30d", "all"}
LimitInputs    == {0, 1, 100}
OffsetInputs   == {0, 1}
PostOutcomes   == {"ok", "connection_error", "timeout", "http_error",
                   "unparsable"}
PlayTaskCounts == {0, 1}
EnvJobIds      == {None, Some(9)}
CustomJobIds   == {None, Some(9)}

\* ------------------------------------------------------------------- state
VARIABLES
    now,        \* the value datetime.utcnow() returned to the last handler
    jobs,       \* table jobs, committed rows, in insertion order
    logs,       \* table job_logs, committed rows, in insertion order
    session,    \* the report handler that is between two commits (api_start)
    active,     \* ConnectionManager.active
    wsState,    \* per websocket: "idle", "open", "closing", "closed"
    received,   \* per websocket: the texts the client was sent
    sendQueue,  \* send_text tasks created by gather and not yet run
    handlers,   \* report handlers suspended in `await manager.broadcast`;
                \* raised: a send_text of the awaited gather has raised
    published,  \* history: the messages broadcast sent out (line 84), in call order
    reports,    \* history: the number of reports that found their job
    subscribed, \* history: per websocket, Len(published) when it was added
    resp,       \* the response returned last
    cb,         \* the reporter: the fields of the CallbackModule object
    posts,      \* history: the requests the reporter has sent, in order
    run         \* the playbook run the reporter is loaded into

vars == <<now, jobs, logs, session, active, wsState, received, sendQueue,
          handlers, published, reports, subscribed, resp, cb, posts, run>>

NoSession == [op |-> "none"]

\* times are hours since datetime.min; the clock starts Epoch hours later
DatetimeMin == 0
Hours24     == 24
Days7       == 7 * 24
Days30      == 30 * 24
Epoch       == Days30

\* ----------------------------------------------------------------- helpers
Min(a, b) == IF a <= b THEN a ELSE b

\* a key generator that hands out the newest row's id again
NextId_Reuse(rows) ==
    IF rows = <<>> THEN 1 ELSE Len(rows)

\* Job.id / JobLog.id: integer primary key, the database assigns max + 1
NextId(rows) ==
    IF rows = <<>> THEN 1
    ELSE 1 + (CHOOSE m \in {rows[i].id : i \in 1..Len(rows)} :
                 \A i \in 1..Len(rows) : rows[i].id <= m)

\* a lookup that forgets the filter on Job.id and takes the first row
FindJob_NoFilter(job_id) ==
    IF jobs = <<>> THEN None ELSE Some(1)

\* db.query(Job).filter(Job.id == job_id).first(): the row's index, or None
FindJob(job_id) ==
    LET hits == {i \in 1..Len(jobs) : jobs[i].id = job_id}
    IN  IF hits = {} THEN None ELSE Some(CHOOSE i \in hits : TRUE)

\* a refresh that hands back the row as it was before the commit
refresh_Uncommitted(k) == jobs[k]

\* db.refresh(job) after db.commit(): the object the handler goes on with
\* holds the committed row
refresh(k) == jobs'[k]

\* a snapshot that leaves out the end time
job_to_dict_NoEndTime(job) ==
    [id           |-> job.id,
     job_name     |-> job.job_name,
     scope        |-> job.scope,
     triggered_by |-> job.triggered_by,
     status       |-> job.status,
     progress     |-> IF job.progress # 0 THEN job.progress ELSE 0,
     start_time   |-> Some(ToString(job.start_time)),
     end_time     |-> None]

\* datetime.isoformat()
isoformat(t) == ToString(t)

\* job_to_dict
job_to_dict(job) ==
    [id           |-> job.id,
     job_name     |-> job.job_name,
     scope        |-> job.scope,
     triggered_by |-> job.triggered_by,
     status       |-> job.status,
     progress     |-> IF job.progress # 0 THEN job.progress ELSE 0,
     start_time   |-> Some(isoformat(job.start_time)),
     end_time     |-> IF job.end_time # None
                      THEN Some(isoformat(TheVal(job.end_time))) ELSE None]

\* Job(job_name=..., scope=..., triggered_by=...) with the column defaults
NewJob(payload, t) ==
    [id           |-> NextId(jobs),
     job_name     |-> payload.job_name,
     scope        |-> payload.scope,
     triggered_by |-> payload.triggered_by,
     status       |-> "running",
     progress     |-> 0,
     start_time   |-> t,
     end_time     |-> None]

\* JobLog(job_id=..., message=..., level=...) with the column defaults
NewLog(job_id, message, level, t) ==
    [id |-> NextId(logs), job_id |-> job_id, ts |-> t,
     level |-> level, message |-> message]

\* Python truthiness of an optional string: None and "" are false
Truthy(o) == o # None /\ TheVal(o) # ""

\* a removal that drops the last element when x is not in the list
RemoveFirst_Pop(s, x) ==
    LET hits == {i \in 1..Len(s) : s[i] = x}
    IN  IF hits = {} THEN SubSeq(s, 1, Len(s) - 1)
        ELSE LET k == CHOOSE i \in hits : \A j \in hits : i <= j
             IN  SubSeq(s, 1, k - 1) \o SubSeq(s, k + 1, Len(s))

\* ConnectionManager.disconnect: list.remove drops the first occurrence,
\* ValueError (not in the list) is swallowed
RemoveFirst(s, x) ==
    LET hits == {i \in 1..Len(s) : s[i] = x}
    IN  IF hits = {} THEN s
        ELSE LET k == CHOOSE i \in hits : \A j \in hits : i <= j
             IN  SubSeq(s, 1, k - 1) \o SubSeq(s, k + 1, Len(s))

\* json.dumps(message, default=str): the text sent is the message's content
json_dumps(message) == message

\* a broadcast that sends to the first registered websocket only
BroadcastTasks_FirstOnly(message, hid) ==
    IF active = <<>> THEN <<>>
    ELSE <<[ws |-> active[1], data |-> json_dumps(message), hid |-> hid]>>

\* ConnectionManager.broadcast up to the await: nothing is sent when nobody
\* is registered, else one send_text task per websocket of a copy of active
BroadcastTasks(message, hid) ==
    IF active = <<>> THEN <<>>
    ELSE [i \in 1..Len(active) |->
             [ws |-> active[i], data |-> json_dumps(message), hid |-> hid]]

\* ConnectionManager.broadcast, lines 81-84: the history of the messages sent
Published(message) ==
    IF active = <<>> THEN published ELSE Append(published, message)

\* room for one more report that broadcasts n messages
CanReport(n) ==
    /\ reports < MaxReports
    /\ active # <<>> => Len(published) + n <= MaxPublished

Pending(hid) == {i \in 1..Len(sendQueue) : sendQueue[i].hid = hid}
FreeHid == CHOOSE h \in 1..(MaxInFlight + 1) :
               h \notin {x.hid : x \in handlers}
LoopFree == session = NoSession
CanAccept == LoopFree /\ Cardinality(handlers) < MaxInFlight

\* datetime.utcnow(): a reading is never earlier than the one before
utcnow == now..(Epoch + MaxTime)

\* ---------------------------------------------------------------- payloads
\* the job ids reports and queries name: the ids in table jobs and one id
\* that no job has
JobIdInputs == {jobs[i].id : i \in 1..Len(jobs)} \cup {NextId(jobs)}

\* class StartPayload
StartPayload ==
    [job_name : JobNames, scope : Scopes, triggered_by : Users, job_id : {None}]

\* class ProgressPayload, the ones sent in the current state; level is "info" when the field is absent.  The
\* reports carry a progress, or a message at some level, or both, or neither.
ProgressPayload ==
    {[job_id |-> j, progress |-> Some(p), message |-> None,
      level |-> Some("info")] : j \in JobIdInputs, p \in ProgressInputs}
    \cup
    {[job_id |-> j, progress |-> None, message |-> Some(m), level |-> l] :
        j \in JobIdInputs, m \in MessageInputs, l \in LevelInputs}
    \cup
    {[job_id |-> j, progress |-> Some(50), message |-> Some(m),
      level |-> Some("info")] : j \in JobIdInputs, m \in MessageInputs}
    \cup
    {[job_id |-> j, progress |-> None, message |-> None,
      level |-> Some("info")] : j \in JobIdInputs}

\* class CompletePayload, the ones sent in the current state
CompletePayload ==
    {[job_id |-> j, status |-> st, message |-> None] :
        j \in JobIdInputs, st \in StatusInputs}
    \cup
    {[job_id |-> j, status |-> "success", message |-> Some("done")] :
        j \in JobIdInputs}

\* ------------------------------------------------------------------- Init
Init ==
    /\ now = Epoch
    /\ jobs = <<>>
    /\ logs = <<>>
    /\ session = NoSession
    /\ active = <<>>
    /\ wsState = [w \in WebSockets |-> "idle"]
    /\ received = [w \in WebSockets |-> <<>>]
    /\ sendQueue = <<>>
    /\ handlers = {}
    /\ published = <<>>
    /\ reports = 0
    /\ subscribed = [w \in WebSockets |-> 0]
    /\ resp = [op |-> "none", code |-> 0]
    /\ cb = [job_id |-> None, pending_lines |-> <<>>, sent_any |-> FALSE,
             job_started |-> FALSE, progress_total |-> 0,
             tasks_started |-> 0, last_progress_sent |-> 0,
             seen_play_uids |-> {}, failed |-> FALSE]
    /\ posts = <<>>
    /\ run = [phase |-> "loaded", env_job_id |-> None, plays |-> 0,
              tasks |-> 0, play_tasks |-> 0, emitted |-> <<>>,
              failures |-> FALSE, raised |-> FALSE]

\* --------------------------------------------------------- report handlers
\* api_start, lines 123-127: the job row is added and committed
api_start_commit_job(payload, t) ==
    /\ CanAccept
    /\ Len(jobs) < MaxJobs
    /\ Len(logs) < MaxLogs
    /\ CanReport(1)
    /\ now' = t
    /\ jobs' = Append(jobs, NewJob(payload, t))
    /\ reports' = reports + 1
    /\ session' = [op |-> "start", job_id |-> NextId(jobs)]
    /\ UNCHANGED <<logs, active, wsState, received, sendQueue, handlers,
                   published, subscribed, resp>>
    /\ UNCHANGED <<cb, posts, run>>

\* api_start, lines 129-135: the "Job started" row is added and committed,
\* then job_start is broadcast
api_start_commit_log(t) ==
    /\ session.op = "start"
    /\ now' = t
    /\ jobs' = jobs
    /\ LET job_id == session.job_id
           new_job == refresh(TheVal(FindJob(job_id)))
           msg == [type |-> "job_start", job |-> job_to_dict(new_job)]
           hid == FreeHid
       IN  /\ logs' = Append(logs, NewLog(job_id, "Job started", "info", t))
           /\ sendQueue' = sendQueue \o BroadcastTasks(msg, hid)
           /\ published' = Published(msg)
           /\ IF active = <<>>
              THEN /\ handlers' = handlers
                   /\ resp' = [op |-> "start", code |-> 200,
                               job_id |-> job_id]
              ELSE /\ handlers' = handlers \cup
                         {[hid |-> hid, op |-> "start", pc |-> "broadcast",
                           job_id |-> job_id, message |-> None,
                           level |-> None, raised |-> FALSE]}
                   /\ resp' = resp
    /\ session' = NoSession
    /\ UNCHANGED <<active, wsState, received, reports, subscribed>>
    /\ UNCHANGED <<cb, posts, run>>

\* the job_log message of api_progress, line 154
JobLogMessage(job_id, message, level, t) ==
    [type |-> "job_log",
     log |-> [job_id |-> job_id, message |-> TheVal(message),
              level |-> level, ts |-> isoformat(t)]]

\* a handler that never lowers the stored progress
StoredProgress_Max(job, payload) ==
    IF payload.progress # None /\ TheVal(payload.progress) > job.progress
    THEN TheVal(payload.progress) ELSE job.progress

\* a handler that leaves the progress of a job that is no longer running
StoredProgress_Frozen(job, payload) ==
    IF payload.progress # None /\ job.status = "running"
    THEN TheVal(payload.progress) ELSE job.progress

\* api_progress, lines 143-144: the progress the handler stores
StoredProgress(job, payload) ==
    IF payload.progress # None THEN TheVal(payload.progress) ELSE job.progress

\* api_progress, lines 139-142: the job is unknown
api_progress_not_found(payload) ==
    /\ CanAccept
    /\ FindJob(payload.job_id) = None
    /\ resp' = [op |-> "progress", code |-> 404, error |-> "job not found"]
    /\ UNCHANGED <<now, jobs, logs, session, active, wsState, received,
                   sendQueue, handlers, published, reports, subscribed>>
    /\ UNCHANGED <<cb, posts, run>>

\* api_progress, lines 139-155, up to the first await that suspends; the
\* clock is read at time t when a log row is written
api_progress(payload, t) ==
    /\ CanAccept
    /\ FindJob(payload.job_id) # None
    /\ ~Truthy(payload.message) => t = now
    /\ now' = t
    /\ Truthy(payload.message) => Len(logs) < MaxLogs
    /\ CanReport(IF Truthy(payload.message) THEN 2 ELSE 1)
    /\ LET k == TheVal(FindJob(payload.job_id))
           job == [jobs[k] EXCEPT !.progress = StoredProgress(jobs[k], payload)]
           msg == [type |-> "job_progress", job |-> job_to_dict(refresh(k))]
           hid == FreeHid
       IN  /\ jobs' = [jobs EXCEPT ![k] = job]
           /\ reports' = reports + 1
           /\ logs' = IF Truthy(payload.message)
                      THEN Append(logs, NewLog(payload.job_id,
                                      TheVal(payload.message),
                                      IF Truthy(payload.level)
                                      THEN TheVal(payload.level) ELSE "info",
                                      t))
                      ELSE logs
           /\ sendQueue' = sendQueue \o BroadcastTasks(msg, hid)
           /\ published' = Published(msg)
           /\ IF active = <<>>
              THEN /\ handlers' = handlers
                   /\ resp' = [op |-> "progress", code |-> 200, ok |-> TRUE]
              ELSE /\ handlers' = handlers \cup
                         {[hid |-> hid, op |-> "progress", pc |-> "broadcast",
                           job_id |-> payload.job_id,
                           message |-> payload.message,
                           level |-> payload.level, raised |-> FALSE]}
                   /\ resp' = resp
    /\ UNCHANGED <<session, active, wsState, received, subscribed>>
    /\ UNCHANGED <<cb, posts, run>>

\* api_progress, lines 153-155: the first broadcast is over, the message is
\* broadcast as job_log
api_progress_log(h, t) ==
    /\ LoopFree
    /\ now' = t
    /\ h \in handlers
    /\ h.op = "progress" /\ h.pc = "broadcast" /\ Truthy(h.message)
    /\ Pending(h.hid) = {}
    /\ LET logmsg == JobLogMessage(h.job_id, h.message, h.level, t)
       IN  /\ published' = Published(logmsg)
           /\ sendQueue' = sendQueue \o BroadcastTasks(logmsg, h.hid)
           /\ IF active = <<>>
              THEN /\ handlers' = handlers \ {h}
                   /\ resp' = [op |-> "progress", code |-> 200, ok |-> TRUE]
              ELSE /\ handlers' = (handlers \ {h}) \cup
                                     {[h EXCEPT !.pc = "log_broadcast",
                                                !.raised = FALSE]}
                   /\ resp' = resp
    /\ UNCHANGED <<jobs, logs, session, active, wsState, received,
                   reports, subscribed>>
    /\ UNCHANGED <<cb, posts, run>>

\* api_complete, lines 159-162: the job is unknown
api_complete_not_found(payload) ==
    /\ CanAccept
    /\ FindJob(payload.job_id) = None
    /\ resp' = [op |-> "complete", code |-> 404, error |-> "job not found"]
    /\ UNCHANGED <<now, jobs, logs, session, active, wsState, received,
                   sendQueue, handlers, published, reports, subscribed>>
    /\ UNCHANGED <<cb, posts, run>>

\* a completion that leaves the progress as it was
CompletedJob_KeepProgress(job, payload, t) ==
    [job EXCEPT !.status = payload.status,
                !.end_time = Some(t)]

\* a completion that also writes the status into the job's name
CompletedJob_Rename(job, payload, t) ==
    [job EXCEPT !.status = payload.status,
                !.progress = 100,
                !.end_time = Some(t),
                !.job_name = payload.status]

\* a completion that reopens a job that had ended
CompletedJob_Reopen(job, payload, t) ==
    [job EXCEPT !.status = IF job.end_time # None THEN "running"
                           ELSE payload.status,
                !.progress = 100,
                !.end_time = Some(t)]

\* a completion that records no end time
CompletedJob_NoEndTime(job, payload, t) ==
    [job EXCEPT !.status = payload.status,
                !.progress = 100]

\* api_complete, lines 163-165: the fields the handler assigns
CompletedJob(job, payload, t) ==
    [job EXCEPT !.status = payload.status,
                !.progress = 100,
                !.end_time = Some(t)]

\* api_complete, lines 159-172, up to the await
api_complete(payload, t) ==
    /\ CanAccept
    /\ FindJob(payload.job_id) # None
    /\ now' = t
    /\ Truthy(payload.message) => Len(logs) < MaxLogs
    /\ CanReport(1)
    /\ LET k == TheVal(FindJob(payload.job_id))
           job == CompletedJob(jobs[k], payload, t)
           msg == [type |-> "job_complete", job |-> job_to_dict(refresh(k))]
           hid == FreeHid
       IN  /\ jobs' = [jobs EXCEPT ![k] = job]
           /\ reports' = reports + 1
           /\ logs' = IF Truthy(payload.message)
                      THEN Append(logs, NewLog(payload.job_id,
                                      TheVal(payload.message), "info", t))
                      ELSE logs
           /\ published' = Published(msg)
           /\ sendQueue' = sendQueue \o BroadcastTasks(msg, hid)
           /\ IF active = <<>>
              THEN /\ handlers' = handlers
                   /\ resp' = [op |-> "complete", code |-> 200, ok |-> TRUE]
              ELSE /\ handlers' = handlers \cup
                         {[hid |-> hid, op |-> "complete", pc |-> "broadcast",
                           job_id |-> payload.job_id, message |-> None,
                           level |-> None, raised |-> FALSE]}
                   /\ resp' = resp
    /\ UNCHANGED <<session, active, wsState, received, subscribed>>
    /\ UNCHANGED <<cb, posts, run>>

\* the awaited broadcast of a report handler is over and nothing is left to
\* broadcast: the handler returns its response (lines 135, 155, 172)
handler_return(h) ==
    /\ LoopFree
    /\ h \in handlers
    /\ Pending(h.hid) = {}
    /\ ~(h.op = "progress" /\ h.pc = "broadcast" /\ Truthy(h.message))
    /\ handlers' = handlers \ {h}
    /\ resp' = IF h.op = "start"
               THEN [op |-> "start", code |-> 200, job_id |-> h.job_id]
               ELSE [op |-> h.op, code |-> 200, ok |-> TRUE]
    /\ UNCHANGED <<now, jobs, logs, session, active, wsState, received,
                   sendQueue, published, reports, subscribed>>
    /\ UNCHANGED <<cb, posts, run>>

\* ------------------------------------------------------------ broadcast hub
\* websocket, line 207 / ConnectionManager.connect
websocket_connect(ws) ==
    /\ LoopFree
    /\ wsState[ws] = "idle"
    /\ wsState' = [wsState EXCEPT ![ws] = "open"]
    /\ active' = Append(active, ws)
    /\ subscribed' = [subscribed EXCEPT ![ws] = Len(published)]
    /\ UNCHANGED <<now, jobs, logs, session, received, sendQueue, handlers,
                   published, reports, resp>>
    /\ UNCHANGED <<cb, posts, run>>

\* the client goes away; the server has not yet noticed.  What the client
\* was sent is of no interest from here on and is forgotten.
client_close(ws) ==
    /\ wsState[ws] = "open"
    /\ wsState' = [wsState EXCEPT ![ws] = "closing"]
    /\ received' = [received EXCEPT ![ws] = <<>>]
    /\ subscribed' = [subscribed EXCEPT ![ws] = 0]
    /\ UNCHANGED <<now, jobs, logs, session, active, sendQueue,
                   handlers, published, reports, resp>>
    /\ UNCHANGED <<cb, posts, run>>

\* a disconnect under a broadcast that iterates over the live list: the
\* removal shifts the list and the last websocket of the iteration is skipped
websocket_disconnect_LiveList(ws) ==
    /\ LoopFree
    /\ wsState[ws] = "closing"
    /\ wsState' = [wsState EXCEPT ![ws] = "closed"]
    /\ active' = RemoveFirst(active, ws)
    /\ sendQueue' = IF sendQueue = <<>> THEN sendQueue
                    ELSE SubSeq(sendQueue, 1, Len(sendQueue) - 1)
    /\ UNCHANGED <<now, jobs, logs, session, received, handlers,
                   published, reports, subscribed, resp>>
    /\ UNCHANGED <<cb, posts, run>>

\* websocket, lines 212-213: receive_text raises WebSocketDisconnect
websocket_disconnect(ws) ==
    /\ LoopFree
    /\ wsState[ws] = "closing"
    /\ wsState' = [wsState EXCEPT ![ws] = "closed"]
    /\ active' = RemoveFirst(active, ws)
    /\ UNCHANGED <<now, jobs, logs, session, received, sendQueue, handlers,
                   published, reports, subscribed, resp>>
    /\ UNCHANGED <<cb, posts, run>>

\* an event loop that runs the newest send_text task first
send_text_ok_Newest ==
    /\ LoopFree
    /\ sendQueue # <<>>
    /\ wsState[sendQueue[Len(sendQueue)].ws] = "open"
    /\ received' = [received EXCEPT ![sendQueue[Len(sendQueue)].ws] =
                       Append(@, sendQueue[Len(sendQueue)].data)]
    /\ sendQueue' = SubSeq(sendQueue, 1, Len(sendQueue) - 1)
    /\ UNCHANGED <<now, jobs, logs, session, active, wsState, handlers,
                   published, reports, subscribed, resp>>
    /\ UNCHANGED <<cb, posts, run>>

\* the oldest send_text task of a gather runs and the text goes out
send_text_ok ==
    /\ LoopFree
    /\ sendQueue # <<>>
    /\ wsState[Head(sendQueue).ws] = "open"
    /\ received' = [received EXCEPT ![Head(sendQueue).ws] =
                       Append(@, Head(sendQueue).data)]
    /\ sendQueue' = Tail(sendQueue)
    /\ UNCHANGED <<now, jobs, logs, session, active, wsState, handlers,
                   published, reports, subscribed, resp>>
    /\ UNCHANGED <<cb, posts, run>>

\* a gather that lets the exception of a send_text through to the handler
\* that awaits the broadcast: the handler ends with a server error
send_text_fail_Propagate ==
    /\ LoopFree
    /\ sendQueue # <<>>
    /\ wsState[Head(sendQueue).ws] # "open"
    /\ sendQueue' = Tail(sendQueue)
    /\ handlers' = {h \in handlers : h.hid # Head(sendQueue).hid}
    /\ resp' = [op |-> "error", code |-> 500]
    /\ UNCHANGED <<now, jobs, logs, session, active, wsState, received,
                   published, reports, subscribed>>
    /\ UNCHANGED <<cb, posts, run>>

\* the oldest send_text task runs on a closed socket: it raises, and gather
\* (return_exceptions=True) keeps the exception as one of its results
send_text_fail ==
    /\ LoopFree
    /\ sendQueue # <<>>
    /\ wsState[Head(sendQueue).ws] # "open"
    /\ sendQueue' = Tail(sendQueue)
    /\ handlers' = {IF h.hid = Head(sendQueue).hid
                    THEN [h EXCEPT !.raised = TRUE] ELSE h : h \in handlers}
    /\ UNCHANGED <<now, jobs, logs, session, active, wsState, received,
                   published, reports, subscribed, resp>>
    /\ UNCHANGED <<cb, posts, run>>

\* the websockets in a list
Range(s) == {s[i] : i \in 1..Len(s)}

\* ConnectionManager.connect, called once for a websocket
connect(ws) ==
    /\ ws \notin Range(active)
    /\ active' = Append(active, ws)
    /\ resp' = [op |-> "connect", code |-> 0]
    /\ UNCHANGED <<now, jobs, logs, session, wsState, received, sendQueue,
                   handlers, published, reports, subscribed>>
    /\ UNCHANGED <<cb, posts, run>>

\* ConnectionManager.disconnect, called with any websocket; value_error:
\* list.remove raised ValueError, which is swallowed
disconnect(ws) ==
    /\ active' = RemoveFirst(active, ws)
    /\ resp' = [op |-> "disconnect", code |-> 0,
                value_error |-> ws \notin Range(active)]
    /\ UNCHANGED <<now, jobs, logs, session, wsState, received, sendQueue,
                   handlers, published, reports, subscribed>>
    /\ UNCHANGED <<cb, posts, run>>

\* ----------------------------------------------------------- query handlers
\* the orders a database may return the rows with indices idx in under
\* ORDER BY key ASC (Desc = FALSE) or DESC: sorted by the key, rows with
\* equal keys in any order
OrderBy(idx, key, Desc) ==
    {q \in [1..Cardinality(idx) -> idx] :
        \A i, j \in 1..Cardinality(idx) :
            i < j => /\ q[i] # q[j]
                     /\ IF Desc THEN key[q[i]] >= key[q[j]]
                                ELSE key[q[i]] <= key[q[j]]}

\* q.offset(offset) / q.limit(limit), lines 198-201
OffsetLimit(q, limit, offset) ==
    LET a == IF offset > 0
             THEN (IF offset >= Len(q) THEN <<>>
                   ELSE SubSeq(q, offset + 1, Len(q)))
             ELSE q
    IN  IF limit > 0 THEN SubSeq(a, 1, Min(limit, Len(a))) ELSE a

\* api_jobs, lines 177-185
Cutoff(range, t) ==
    IF range = "24h" THEN t - Hours24
    ELSE IF range = "7d" THEN t - Days7
    ELSE IF range = "30d" THEN t - Days30
    ELSE DatetimeMin

\* a query that forgets the filter on start_time
JobRows_NoFilter(range, t) ==
    LET JobStart == [i \in 1..Len(jobs) |-> jobs[i].start_time]
    IN  OrderBy(1..Len(jobs), JobStart, TRUE)

\* api_jobs, line 186: the row orders the query may return (indices of jobs)
JobRows(range, t) ==
    LET JobStart == [i \in 1..Len(jobs) |-> jobs[i].start_time]
    IN  OrderBy({i \in 1..Len(jobs) : jobs[i].start_time >= Cutoff(range, t)},
                JobStart, TRUE)

\* api_job_logs, lines 197-202: the row orders the query may return
\* (indices of logs)
LogRows(job_id, limit, offset) ==
    LET LogTs == [i \in 1..Len(logs) |-> logs[i].ts]
    IN  {OffsetLimit(q, limit, offset) :
            q \in OrderBy({i \in 1..Len(logs) : logs[i].job_id = job_id},
                          LogTs, FALSE)}

\* api_jobs: runs on a worker thread; it reads the clock at time t, which
\* only places the cutoff and is not kept
api_jobs(range, t) ==
    /\ \E rows \in JobRows(range, t) :
          resp' = [op |-> "jobs", code |-> 200,
                   jobs |-> [i \in 1..Len(rows) |-> job_to_dict(jobs[rows[i]])]]
    /\ UNCHANGED <<now, jobs, logs, session, active, wsState, received,
                   sendQueue, handlers, published, reports, subscribed>>
    /\ UNCHANGED <<cb, posts, run>>

\* api_job_logs: runs on a worker thread
api_job_logs(job_id, limit, offset) ==
    /\ \E rows \in LogRows(job_id, limit, offset) :
          resp' = [op |-> "logs", code |-> 200,
                   logs |-> [i \in 1..Len(rows) |->
                               [ts |-> isoformat(logs[rows[i]].ts),
                                level |-> logs[rows[i]].level,
                                message |-> logs[rows[i]].message]]]
    /\ UNCHANGED <<now, jobs, logs, session, active, wsState, received,
                   sendQueue, handlers, published, reports, subscribed>>
    /\ UNCHANGED <<cb, posts, run>>

\* ------------------------------------------------------------ the reporter
\* callback_plugins/dashboard_log.py, class CallbackModule.  A callback runs
\* to its end in one step, except v2_playbook_on_play_start, which blocks in
\* urlopen while the server handles the start request.  The helpers below
\* work on a record st: the object's fields (cb), the requests sent (posts),
\* the lines produced (emitted), the outcome the requests of this callback
\* meet, DASHBOARD_JOB_ID (env), and raised: an exception is on its way out
\* of the callback, which skips everything that follows.  A text is the
\* sequence of its lines; a request's level None is an absent field.  The
\* fallback buffer _buffer is not kept: it holds the emitted texts.  The
\* progress and complete requests are recorded in posts; what the server does
\* with them is the subject of the report handlers above.

\* a _post_json that lets an HTTP error through to its caller
post_json_Raise(outcome, response, expect_json) ==
    IF outcome = "http_error" THEN [raised |-> TRUE, value |-> None]
    ELSE IF outcome \in {"connection_error", "timeout"}
    THEN [raised |-> FALSE, value |-> None]
    ELSE IF ~expect_json THEN [raised |-> FALSE, value |-> None]
    ELSE IF outcome = "unparsable"
    THEN [raised |-> FALSE, value |-> Some([job_id |-> None])]
    ELSE [raised |-> FALSE, value |-> Some(response)]

\* _post_json, lines 354-370: every exception of the request is caught and
\* None returned; a body that does not parse gives {}
post_json(outcome, response, expect_json) ==
    IF outcome \in {"connection_error", "timeout", "http_error"}
    THEN [raised |-> FALSE, value |-> None]
    ELSE IF ~expect_json THEN [raised |-> FALSE, value |-> None]
    ELSE IF outcome = "unparsable"
    THEN [raised |-> FALSE, value |-> Some([job_id |-> None])]
    ELSE [raised |-> FALSE, value |-> Some(response)]

\* a request whose response is not read (lines 388, 733)
Post(st, request) ==
    IF st.raised THEN st
    ELSE [st EXCEPT !.posts = Append(@, request),
                    !.raised = post_json(st.outcome, [job_id |-> None],
                                         FALSE).raised]

\* `if job_id`: None and 0 are false
Known(job_id) == job_id # None /\ TheVal(job_id) # 0

\* _post_progress, lines 375-386: the payload
ProgressRequest(job_id, text, level, progress) ==
    [op |-> "progress", job_id |-> job_id, message |-> text,
     level |-> IF level # "" /\ (text # None \/ level # "info")
               THEN Some(level) ELSE None,
     progress |-> IF progress = None THEN None
                  ELSE Some(IF TheVal(progress) < 0 THEN 0
                            ELSE Min(100, TheVal(progress)))]

\* _post_progress, lines 372-388
post_progress(st, job_id, text, level, progress) ==
    IF st.raised \/ (text = None /\ progress = None) THEN st
    ELSE Post([st EXCEPT !.cb.sent_any = TRUE],
              ProgressRequest(job_id, text, level, progress))

\* _post_completion, lines 726-733
post_completion(st, job_id, status, message) ==
    Post(st, [op |-> "complete", job_id |-> job_id, status |-> status,
              message |-> IF Truthy(message) THEN message ELSE None])

\* _ensure_job_id, lines 402-411, with _discover_job_id
ensure_job_id(st) ==
    IF st.raised \/ Known(st.cb.job_id) \/ st.env = None THEN st
    ELSE [st EXCEPT !.cb.job_id = st.env]

\* _flush_pending_lines, lines 421-422: the loop over the lines taken out;
\* a request that raises ends the loop after the first line
PostLines(st, job_id, pending) ==
    LET raises == post_json(st.outcome, [job_id |-> None], FALSE).raised
        sent == IF raises THEN 1 ELSE Len(pending)
    IN  [st EXCEPT !.cb.sent_any = TRUE,
                   !.raised = raises,
                   !.posts = @ \o [i \in 1..sent |->
                                      ProgressRequest(
                                         job_id, Some(pending[i].message),
                                         pending[i].level, None)]]

\* a flush that posts the queued lines and leaves them in the queue
flush_pending_lines_KeepQueue(st) ==
    IF st.raised \/ st.cb.pending_lines = <<>> THEN st
    ELSE LET s1 == ensure_job_id(st)
         IN  IF ~Known(s1.cb.job_id) THEN s1
             ELSE PostLines(s1, TheVal(s1.cb.job_id), s1.cb.pending_lines)

\* _flush_pending_lines, lines 413-422
flush_pending_lines(st) ==
    IF st.raised \/ st.cb.pending_lines = <<>> THEN st
    ELSE LET s1 == ensure_job_id(st)
         IN  IF ~Known(s1.cb.job_id) THEN s1
             ELSE PostLines([s1 EXCEPT !.cb.pending_lines = <<>>],
                            TheVal(s1.cb.job_id), s1.cb.pending_lines)

\* _update_job_id, lines 390-400
update_job_id(st, value) ==
    IF st.raised \/ value = None \/ st.cb.job_id = value THEN st
    ELSE flush_pending_lines([st EXCEPT !.cb.job_id = value])

\* _queue_message, lines 458-473: the text, or each of its lines, is queued
\* and the queue flushed
queue_message(st, text, level, split_lines) ==
    IF st.raised \/ text = <<>> THEN st
    ELSE LET pieces == IF split_lines
                       THEN [i \in 1..Len(text) |->
                                [message |-> <<text[i]>>, level |-> level]]
                       ELSE <<[message |-> text, level |-> level]>>
         IN  flush_pending_lines(
                [st EXCEPT !.cb.pending_lines = @ \o pieces,
                           !.emitted = @ \o pieces])

\* _emit, lines 757-766
emit(st, text) == queue_message(st, text, "info", TRUE)

\* a percentage that is not kept below 100
TaskPct_Uncapped(tasks_started, progress_total) ==
    (tasks_started * 100) \div progress_total

\* _record_task_start, lines 694-698: the percentage of the tasks started,
\* kept in 0..99 (for the counts used here the float quotient of the code
\* truncates to the integer quotient)
TaskPct(tasks_started, progress_total) ==
    Min(99, (tasks_started * 100) \div progress_total)

\* _record_task_start, lines 682-701
record_task_start(st, is_meta) ==
    IF st.raised \/ is_meta THEN st
    ELSE IF st.cb.progress_total <= 0
    THEN [st EXCEPT !.cb.tasks_started = @ + 1]
    ELSE LET s2 == ensure_job_id([st EXCEPT !.cb.tasks_started = @ + 1])
             pct == TaskPct(st.cb.tasks_started + 1, st.cb.progress_total)
         IN  IF Known(s2.cb.job_id) /\ pct > st.cb.last_progress_sent
             THEN [post_progress(s2, TheVal(s2.cb.job_id), None, "info",
                                 Some(pct))
                      EXCEPT !.cb.last_progress_sent =
                                IF post_json(st.outcome, [job_id |-> None],
                                             FALSE).raised THEN @ ELSE pct]
             ELSE s2

\* _accumulate_total_tasks, lines 634-644: play is the play's key, total the
\* number of tasks it compiles to
accumulate_total_tasks(st, play, total) ==
    IF st.raised \/ play \in st.cb.seen_play_uids THEN st
    ELSE [st EXCEPT !.cb.seen_play_uids = @ \cup {play},
                    !.cb.progress_total = @ + total]

\* the record the helpers work on, and the state a callback leaves
Enter(outcome) ==
    [cb |-> cb, posts |-> posts, emitted |-> run.emitted, raised |-> FALSE,
     outcome |-> outcome, env |-> run.env_job_id]

Leave(st, after) ==
    \E s \in {st} :
       /\ cb' = s.cb
       /\ posts' = s.posts
       /\ run' = [after EXCEPT
                    !.phase = IF s.raised THEN "aborted" ELSE @,
                    !.emitted = s.emitted,
                    !.raised = s.raised]

\* v2_playbook_on_start, lines 146-173; env: DASHBOARD_JOB_ID of the process
v2_playbook_on_start(env) ==
    /\ run.phase = "loaded"
    /\ cb' = [cb EXCEPT !.job_id = None, !.job_started = FALSE,
                        !.failed = FALSE, !.progress_total = 0,
                        !.tasks_started = 0, !.last_progress_sent = 0,
                        !.seen_play_uids = {}, !.pending_lines = <<>>,
                        !.sent_any = FALSE]
    /\ run' = [run EXCEPT !.phase = "started", !.env_job_id = env]
    /\ UNCHANGED <<now, jobs, logs, session, active, wsState, received,
                   sendQueue, handlers, published, reports, subscribed,
                   resp, posts>>

\* v2_playbook_on_play_start when the job was started at an earlier play
v2_playbook_on_play_start(total, outcome) ==
    /\ run.phase = "play"
    /\ run.plays < MaxPlays
    /\ cb.job_started
    /\ \E s1 \in {accumulate_total_tasks(Enter(outcome), run.plays + 1,
                                          total)} :
          Leave(emit(s1, <<"", "PLAY">>), [run EXCEPT !.plays = @ + 1])
    /\ UNCHANGED <<now, jobs, logs, session, active, wsState, received,
                   sendQueue, handlers, published, reports, subscribed,
                   resp>>

\* v2_playbook_on_play_start, lines 175-177 and 510-530: no job has been
\* started, the start request is sent and the reporter waits in urlopen
play_start_post(total) ==
    /\ run.phase \in {"started", "play"}
    /\ run.plays < MaxPlays
    /\ ~cb.job_started
    /\ posts' = Append(posts, [op |-> "start", job_name |-> "Deploy",
                               scope |-> "web", triggered_by |-> "alice"])
    /\ run' = [run EXCEPT !.phase = "starting", !.play_tasks = total]
    /\ resp' = [op |-> "none", code |-> 0]
    /\ UNCHANGED <<now, jobs, logs, session, active, wsState, received,
                   sendQueue, handlers, published, reports, subscribed, cb>>

\* the server takes the start request the reporter waits for
StartRequested ==
    run.phase = "starting" /\ resp.op # "start"

\* v2_playbook_on_play_start, lines 530-548 and 178-186: urlopen is over.
\* A response that was sent arrives (ok), arrives unreadable (unparsable)
\* or is lost (timeout); a request the server never handled ends in a
\* connection error, an HTTP error or a timeout.
play_start_resume(outcome) ==
    /\ run.phase = "starting"
    /\ session = NoSession
    /\ IF resp.op = "start"
       THEN outcome \in {"ok", "unparsable", "timeout"}
       ELSE outcome \in {"connection_error", "http_error", "timeout"}
    /\ LET r == IF resp.op = "start"
                THEN post_json(outcome, [job_id |-> Some(resp.job_id)], TRUE)
                ELSE post_json(outcome, [job_id |-> None], TRUE)
           job_id == IF r.value = None THEN None ELSE TheVal(r.value).job_id
       IN  \E s0 \in {[Enter(outcome) EXCEPT !.raised = r.raised]} :
           \E s1 \in {IF Known(job_id) THEN update_job_id(s0, job_id)
                       ELSE s0} :
           \E s2 \in {IF s1.raised THEN s1
                       ELSE IF Known(job_id)
                       THEN queue_message(
                               [s1 EXCEPT !.cb.job_started = TRUE],
                               <<"Dashboard job started">>, "info", FALSE)
                       ELSE queue_message(
                               s1,
                               <<"Unable to register job with dashboard API.">>,
                               "error", FALSE)} :
           \E s3 \in {accumulate_total_tasks(s2, run.plays + 1,
                                              run.play_tasks)} :
              Leave(emit(s3, <<"", "PLAY">>),
                    [run EXCEPT !.phase = "play", !.plays = @ + 1])
    /\ UNCHANGED <<now, jobs, logs, session, active, wsState, received,
                   sendQueue, handlers, published, reports, subscribed,
                   resp>>

\* v2_playbook_on_task_start, lines 244-247; a meta task has no runner
\* result
v2_playbook_on_task_start(is_meta, outcome) ==
    /\ run.phase = "play"
    /\ run.tasks < MaxTasks
    /\ \E s1 \in {emit(Enter(outcome), <<"", "TASK">>)} :
          Leave(record_task_start(s1, is_meta),
                [run EXCEPT !.tasks = @ + 1,
                            !.phase = IF is_meta THEN "play" ELSE "task"])
    /\ UNCHANGED <<now, jobs, logs, session, active, wsState, received,
                   sendQueue, handlers, published, reports, subscribed,
                   resp>>

\* v2_runner_on_ok, lines 249-255
v2_runner_on_ok(outcome) ==
    /\ run.phase = "task"
    /\ Leave(emit(Enter(outcome), <<"ok">>), [run EXCEPT !.phase = "play"])
    /\ UNCHANGED <<now, jobs, logs, session, active, wsState, received,
                   sendQueue, handlers, published, reports, subscribed,
                   resp>>

\* v2_runner_on_failed, lines 257-269
v2_runner_on_failed(ignore_errors, outcome) ==
    /\ run.phase = "task"
    /\ \E s1 \in {emit(Enter(outcome), <<"fatal">>)} :
       \E s2 \in {IF s1.raised \/ ignore_errors THEN s1
                   ELSE [s1 EXCEPT !.cb.failed = TRUE]} :
          Leave(queue_message(s2, <<"Task failed", "Details">>, "error",
                              FALSE),
                [run EXCEPT !.phase = "play",
                            !.failures = @ \/ ~ignore_errors])
    /\ UNCHANGED <<now, jobs, logs, session, active, wsState, received,
                   sendQueue, handlers, published, reports, subscribed,
                   resp>>

\* v2_runner_on_unreachable, lines 276-287
v2_runner_on_unreachable(outcome) ==
    /\ run.phase = "task"
    /\ \E s1 \in {emit(Enter(outcome), <<"unreachable">>)} :
       \E s2 \in {IF s1.raised THEN s1
                   ELSE [s1 EXCEPT !.cb.failed = TRUE]} :
          Leave(queue_message(s2, <<"Host unreachable", "Details">>,
                              "error", FALSE),
                [run EXCEPT !.phase = "play", !.failures = TRUE])
    /\ UNCHANGED <<now, jobs, logs, session, active, wsState, received,
                   sendQueue, handlers, published, reports, subscribed,
                   resp>>

\* the texts of the lines produced so far, the content of the buffer
RECURSIVE LogText(_)
LogText(lines) ==
    IF lines = <<>> THEN <<>> ELSE Head(lines).message \o LogText(Tail(lines))

\* v2_playbook_on_stats, lines 188-241; custom: the job id of the custom
\* stats; one host was processed
v2_playbook_on_stats(custom, outcome) ==
    /\ run.phase \in {"started", "play"}
    /\ \E s1 \in {update_job_id(Enter(outcome), custom)} :
       \E s2 \in {emit(s1, <<"", "PLAY RECAP">>)} :
       \E s3 \in {emit(s2, <<"host1">>)} :
       \E s4 \in {IF Known(s3.cb.job_id) THEN s3
                   ELSE update_job_id(s3, s3.env)} :
       \E s5 \in {flush_pending_lines(s4)} :
       \E s6 \in {ensure_job_id(s5)} :
       \E s7 \in {IF ~s6.cb.sent_any /\ s6.emitted # <<>>
                      /\ Known(s6.cb.job_id)
                   THEN post_progress(s6, TheVal(s6.cb.job_id),
                                      Some(LogText(s6.emitted)), "info", None)
                   ELSE s6} :
       \E s8 \in {IF s7.raised \/ ~Known(s7.cb.job_id) THEN s7
                   ELSE [post_progress(s7, TheVal(s7.cb.job_id), None,
                                       "info", Some(100))
                            EXCEPT !.cb.last_progress_sent =
                                      IF post_json(outcome, [job_id |-> None],
                                                   FALSE).raised
                                      THEN @ ELSE 100]} :
       \E s9 \in {IF s8.raised \/ ~Known(s8.cb.job_id) THEN s8
                   ELSE post_completion(
                           s8, TheVal(s8.cb.job_id),
                           IF s8.cb.failed THEN "failed" ELSE "success",
                           IF s8.cb.failed
                           THEN Some("Playbook completed with failures.")
                           ELSE Some("Playbook completed successfully."))} :
          Leave(IF s9.raised THEN s9
                ELSE [s9 EXCEPT !.cb.job_started = FALSE],
                [run EXCEPT !.phase = "done"])
    /\ UNCHANGED <<now, jobs, logs, session, active, wsState, received,
                   sendQueue, handlers, published, reports, subscribed,
                   resp>>

\* -------------------------------------------------------------------- Next
\* the reports sent while observers are connected: a progress of 30 or of
\* 70 alone, or a message with a null level
HubProgressInputs == {30, 70}

HubProgressPayload ==
    {[job_id |-> j, progress |-> Some(p), message |-> None,
      level |-> Some("info")] : j \in JobIdInputs, p \in HubProgressInputs}
    \cup
    {p \in ProgressPayload : p.message # None /\ p.level = None}

HubCompletePayload ==
    {p \in CompletePayload : p.status = "failed"}

\* the report handlers and the broadcast hub: the reports on one job, within
\* one reading of the clock; of the observers, ws1 is the first to connect
Next ==
    \/ \E payload \in StartPayload :
          jobs = <<>> /\ api_start_commit_job(payload, now)
    \/ api_start_commit_log(now)
    \/ \E payload \in HubProgressPayload : api_progress(payload, now)
    \/ \E h \in handlers : api_progress_log(h, now)
    \/ \E payload \in HubCompletePayload : api_complete(payload, now)
    \/ \E h \in handlers : handler_return(h)
    \/ \E ws \in WebSockets :
          (ws = "ws1" \/ wsState["ws1"] # "idle") /\ websocket_connect(ws)
    \/ \E ws \in WebSockets : client_close(ws)
    \/ \E ws \in WebSockets : websocket_disconnect(ws)
    \/ send_text_ok
    \/ send_text_fail

Spec == Init /\ [][Next]_vars

\* the report handlers alone, with no observer connected
ReportNext ==
    \/ \E payload \in StartPayload, t \in utcnow :
          api_start_commit_job(payload, t)
    \/ \E t \in utcnow : api_start_commit_log(t)
    \/ \E payload \in ProgressPayload : api_progress_not_found(payload)
    \/ \E payload \in ProgressPayload, t \in utcnow : api_progress(payload, t)
    \/ \E payload \in CompletePayload : api_complete_not_found(payload)
    \/ \E payload \in CompletePayload, t \in utcnow : api_complete(payload, t)

ReportSpec == Init /\ [][ReportNext]_vars

\* the report handlers and the query handlers, with no observer connected
QueryNext ==
    \/ ReportNext
    \/ \E range \in RangeInputs, t \in utcnow : api_jobs(range, t)
    \/ \E job_id \in JobIdInputs, limit \in LimitInputs,
          offset \in OffsetInputs : api_job_logs(job_id, limit, offset)

QuerySpec == Init /\ [][QueryNext]_vars

\* the ConnectionManager alone, called with any websocket in any order
ManagerNext ==
    \/ \E ws \in ManagerSockets : connect(ws)
    \/ \E ws \in ManagerSockets : disconnect(ws)

ManagerSpec == Init /\ [][ManagerNext]_vars

\* the complete reports sent while observers are connected
TerminalCompletePayload ==
    {p \in CompletePayload :
        p.status \in {"success", "failed"} /\ p.message = None}

\* the start and complete reports on one job and the broadcast hub, within
\* one reading of the clock; progress reports name unknown jobs only; of the
\* observers, ws1 is the first to connect
TerminalNext ==
    \/ \E payload \in StartPayload :
          jobs = <<>> /\ api_start_commit_job(payload, now)
    \/ api_start_commit_log(now)
    \/ \E payload \in ProgressPayload : api_progress_not_found(payload)
    \/ \E payload \in TerminalCompletePayload :
          api_complete_not_found(payload)
    \/ \E payload \in TerminalCompletePayload : api_complete(payload, now)
    \/ \E h \in handlers : handler_return(h)
    \/ \E ws \in WebSockets :
          (ws = "ws1" \/ wsState["ws1"] # "idle") /\ websocket_connect(ws)
    \/ \E ws \in WebSockets : client_close(ws)
    \/ \E ws \in WebSockets : websocket_disconnect(ws)
    \/ send_text_ok
    \/ send_text_fail

TerminalSpec == Init /\ [][TerminalNext]_vars

\* clock readings days apart: on and right after the cutoffs of a job
\* started at Epoch
ClockSteps == {0, Hours24, Hours24 + 1, Days7 + 1, Days30 + 1}
ListClock  == {t \in {Epoch + d : d \in ClockSteps} : t >= now}

\* jobs started days apart, and the job list query
ListNext ==
    \/ \E payload \in StartPayload, t \in ListClock :
          api_start_commit_job(payload, t)
    \/ api_start_commit_log(now)
    \/ \E range \in RangeInputs, t \in ListClock : api_jobs(range, t)

ListSpec == Init /\ [][ListNext]_vars

\* one playbook run with the reporter loaded, and the server handling the
\* start requests it sends
ReporterNext ==
    \/ \E env \in EnvJobIds : v2_playbook_on_start(env)
    \/ \E total \in PlayTaskCounts : play_start_post(total)
    \/ \E payload \in StartPayload :
          StartRequested /\ api_start_commit_job(payload, now)
    \/ run.phase = "starting" /\ api_start_commit_log(now)
    \/ \E outcome \in PostOutcomes : play_start_resume(outcome)
    \/ \E total \in PlayTaskCounts, outcome \in PostOutcomes :
          v2_playbook_on_play_start(total, outcome)
    \/ \E is_meta \in BOOLEAN, outcome \in PostOutcomes :
          v2_playbook_on_task_start(is_meta, outcome)
    \/ \E outcome \in PostOutcomes : v2_runner_on_ok(outcome)
    \/ \E ignore_errors \in BOOLEAN, outcome \in PostOutcomes :
          v2_runner_on_failed(ignore_errors, outcome)
    \/ \E outcome \in PostOutcomes : v2_runner_on_unreachable(outcome)
    \/ \E custom \in CustomJobIds, outcome \in PostOutcomes :
          v2_playbook_on_stats(custom, outcome)

ReporterSpec == Init /\ [][ReporterNext]_vars

\* ------------------------------------------------------------------ claims
JobIds == {jobs[i].id : i \in 1..Len(jobs)}
Clamp(p, lo, hi) == IF p < lo THEN lo ELSE IF p > hi THEN hi ELSE p
TerminalStatus == {"success", "failed"}
\* a step in which a report handler ran its store part or returned
ReportStep ==
    jobs' # jobs \/ logs' # logs \/ session' # session
       \/ (resp' # resp /\ resp'.op \in {"start", "progress", "complete"})

\* C1: a progress report on a known job that carries a number p leaves
\* clamp(p, 0, 100) as the job's stored progress, and every stored progress
\* lies in [0,100].
C1_ProgressClamped ==
    /\ [](\A i \in 1..Len(jobs) : jobs[i].progress \in 0..100)
    /\ [][ReportStep => \A p \in ProgressPayload :
            (p.job_id \in JobIds /\ p.progress # None
               /\ now' \in utcnow /\ api_progress(p, now'))
            => \A i \in 1..Len(jobs) :
                  jobs[i].id = p.job_id
                  => jobs'[i].progress = Clamp(TheVal(p.progress), 0, 100)]_vars

\* the 404 response of api_progress and api_complete
NotFound(op) == [op |-> op, code |-> 404, error |-> "job not found"]

\* C2: a progress or complete report for an id that is not in table jobs is
\* answered 404 "job not found" and changes neither table, and every row of
\* job_logs names a job that exists.  (Each step is either such an answer
\* with the tables unchanged, or not the handling of a report for an unknown
\* id.)
C2_NotFoundLeavesStore ==
    /\ [](\A i \in 1..Len(logs) : logs[i].job_id \in JobIds)
    /\ [][ReportStep =>
          /\ \A p \in ProgressPayload :
                \/ p.job_id \in JobIds
                \/ UNCHANGED <<jobs, logs>> /\ resp' = NotFound("progress")
                \/ ~(api_progress_not_found(p)
                       \/ (now' \in utcnow /\ api_progress(p, now')))
          /\ \A p \in CompletePayload :
                \/ p.job_id \in JobIds
                \/ UNCHANGED <<jobs, logs>> /\ resp' = NotFound("complete")
                \/ ~(api_complete_not_found(p)
                       \/ (now' \in utcnow /\ api_complete(p, now')))]_vars

\* C2 witness: a report was answered 404 while the store held jobs and logs
C2_Witness ==
    /\ resp.op \in {"progress", "complete"}
    /\ resp.code = 404
    /\ jobs # <<>>
    /\ logs # <<>>

\* C3: once a job's status is terminal, no report changes it again.
C3_StatusChangesOnce ==
    [][\A i \in 1..Len(jobs) :
          jobs[i].status # "running" => jobs'[i].status = jobs[i].status]_vars

\* C4: every job's status is running, success or failed.
C4_StatusInDomain ==
    \A i \in 1..Len(jobs) : jobs[i].status \in {"running"} \cup TerminalStatus

\* C5: right after a complete report on a known job, the job has an
\* end_time, progress 100 and the status the report asked for.
C5_CompleteSetsTerminalFields ==
    [][ReportStep => \A p \in CompletePayload :
          \/ \A i \in 1..Len(jobs) :
                jobs[i].id = p.job_id
                => /\ jobs'[i].end_time # None
                   /\ jobs'[i].progress = 100
                   /\ jobs'[i].status = p.status
          \/ ~(/\ p.job_id \in JobIds
                /\ now' \in utcnow
                /\ api_complete(p, now'))]_vars

\* C5 witness: a complete report asking for "failed" was answered ok, and
\* the job, started at an earlier hour, is failed, at 100 and ended now
C5_Witness ==
    /\ resp.op = "complete" /\ resp.code = 200
    /\ \E i \in 1..Len(jobs) :
          /\ jobs[i].status = "failed"
          /\ jobs[i].progress = 100
          /\ jobs[i].end_time = Some(now)
          /\ jobs[i].start_time < now

\* C6: end_time is null while the job is running, never changes once set,
\* and start_time never changes.
C6_EndTimeSetOnce ==
    /\ [](\A i \in 1..Len(jobs) :
             jobs[i].status = "running" => jobs[i].end_time = None)
    /\ [][\A i \in 1..Len(jobs) :
             /\ jobs'[i].start_time = jobs[i].start_time
             /\ jobs[i].end_time # None
                => jobs'[i].end_time = jobs[i].end_time]_vars

\* C7: a start report adds one job whose id no earlier job has, all ids are
\* pairwise distinct, and when the handler has finished every job list
\* query returns the new job as running with progress 0.
C7_StartCreatesFreshJob ==
    /\ [](\A i, j \in 1..Len(jobs) : jobs[i].id = jobs[j].id => i = j)
    /\ [][ReportStep => \A payload \in StartPayload :
             (now' \in utcnow /\ api_start_commit_job(payload, now'))
             => /\ Len(jobs') = Len(jobs) + 1
                /\ jobs'[Len(jobs')].id \notin JobIds
                /\ session'.job_id = jobs'[Len(jobs')].id]_vars
    /\ [][(now' \in utcnow /\ api_start_commit_log(now'))
             => \A range \in RangeInputs : \A rows \in JobRows(range, now)' :
                   \E k \in 1..Len(rows) :
                      /\ jobs'[rows[k]].id = session.job_id
                      /\ jobs'[rows[k]].status = "running"
                      /\ jobs'[rows[k]].progress = 0]_vars

\* C7 witness: two start reports were handled, the second was answered with
\* its job's id, and a job list query returns two jobs
C7_Witness ==
    /\ Len(jobs) = 2
    /\ jobs[1].id # jobs[2].id
    /\ session = NoSession
    /\ resp = [op |-> "start", code |-> 200, job_id |-> jobs[2].id]
    /\ \A rows \in JobRows("24h", now) : Len(rows) = 2

\* C8: no committed store state holds a job without its "Job started" log
\* entry.
C8_JobAndStartLogTogether ==
    \A i \in 1..Len(jobs) :
       \E k \in 1..Len(logs) :
          logs[k].job_id = jobs[i].id /\ logs[k].message = "Job started"

\* C9: every list a log query may return is in non-decreasing timestamp
\* order and in insertion order.
C9_LogsInInsertionOrder ==
    \A job_id \in JobIdInputs : \A rows \in LogRows(job_id, 0, 0) :
       \A i, j \in 1..Len(rows) :
          i < j => /\ logs[rows[i]].ts <= logs[rows[j]].ts
                   /\ logs[rows[i]].id < logs[rows[j]].id

\* the texts of the send_text tasks not yet run for ws, oldest first
RECURSIVE QueuedFor(_, _)
QueuedFor(q, ws) ==
    IF q = <<>> THEN <<>>
    ELSE (IF Head(q).ws = ws THEN <<Head(q).data>> ELSE <<>>)
         \o QueuedFor(Tail(q), ws)

\* C10: what a connected observer has been sent, followed by what is queued
\* for it, is exactly the messages broadcast since it subscribed, in
\* broadcast order; nothing broadcast before it subscribed is among them.
C10_ObserverSeesSuffixInOrder ==
    \A ws \in WebSockets :
       wsState[ws] = "open"
       => received[ws] \o QueuedFor(sendQueue, ws)
             = SubSeq(published, subscribed[ws] + 1, Len(published))

\* C10 witness: an observer that subscribed after a broadcast has been sent
\* two later messages while two report handlers are in their broadcasts
C10_Witness ==
    \E ws \in WebSockets :
       /\ wsState[ws] = "open"
       /\ subscribed[ws] >= 1
       /\ Len(received[ws]) >= 2
       /\ Cardinality(handlers) = 2

\* the messages of the log rows with the indices in rows, in that order
Messages(rows) == [i \in 1..Len(rows) |-> logs[rows[i]].message]

\* C11: after start, progress(50, "halfway") and a complete report asking
\* for "success" and carrying a completion message, the job is success at
\* 100 and every log list of the job holds exactly "Job started", "halfway"
\* and the completion message, in this order.
C11_ScenarioThreeLogs ==
    [][\A p \in CompletePayload :
          (/\ Len(jobs) = 1 /\ reports = 2
           /\ jobs[1].status = "running" /\ jobs[1].progress = 50
           /\ Messages([i \in 1..Len(logs) |-> i])
                 = <<"Job started", "halfway">>
           /\ p.job_id = jobs[1].id /\ p.status = "success"
           /\ p.message # None
           /\ now' \in utcnow /\ api_complete(p, now'))
          => /\ jobs'[1].status = "success"
             /\ jobs'[1].progress = 100
             /\ \A rows \in LogRows(jobs[1].id, 0, 0)' :
                   Messages(rows)'
                      = <<"Job started", "halfway", TheVal(p.message)>>]_vars

\* the job_progress events among the last two messages broadcast
LastTwoProgress ==
    IF Len(published) < 2 THEN <<>>
    ELSE LET a == published[Len(published) - 1]
             b == published[Len(published)]
         IN  IF a.type = "job_progress" /\ b.type = "job_progress"
             THEN <<a.job.progress, b.job.progress>> ELSE <<>>

\* C12: a progress report of 30 or of 70 stores exactly its own value,
\* also while another report on the same job is still in its broadcast; a
\* report without a progress leaves the stored one; no
\* step other than the commit of a report changes a stored progress; so
\* when the only reports on a job since its start are a progress of 30 and
\* a progress of 70, the stored progress is the one of the two that was
\* committed last, hence 30 or 70.
C12_LastCommittedProgressWins ==
    /\ []((/\ Len(jobs) = 1 /\ reports = 3
           /\ LastTwoProgress \in {<<30, 70>>, <<70, 30>>})
          => /\ jobs[1].progress = LastTwoProgress[2]
             /\ jobs[1].progress \in {30, 70})
    /\ [][\/ reports' = reports /\ jobs' = jobs
          \/ /\ reports' = reports + 1
             /\ \A p \in HubProgressPayload :
                   \/ \A i \in 1..Len(jobs) :
                         jobs[i].id = p.job_id
                         => jobs'[i].progress
                              = IF p.progress # None THEN TheVal(p.progress)
                                ELSE jobs[i].progress
                   \/ ~(p.job_id \in JobIds /\ api_progress(p, now'))]_vars

\* C12 witness: 70 was reported and then 30, and both handlers are still
\* suspended in their broadcasts
C12_Witness ==
    /\ Len(jobs) = 1 /\ reports = 3
    /\ LastTwoProgress = <<70, 30>>
    /\ Cardinality({h \in handlers : h.op = "progress"}) = 2
    /\ \A h \in handlers : Pending(h.hid) # {}

\* the events that carry a job snapshot
JobEvents == {"job_start", "job_progress", "job_complete"}

\* C13: when a report's event is handed to the send tasks, the snapshot in
\* it is a row of the committed table jobs; a task that is queued keeps its
\* text, and what an observer is sent is the text of the oldest task.  So
\* every snapshot an observer is sent was committed at or before the send.
C13_CommitBeforeBroadcast ==
    [][/\ Len(sendQueue') >= Len(sendQueue)
          => /\ SubSeq(sendQueue', 1, Len(sendQueue)) = sendQueue
             /\ \A n \in (Len(sendQueue) + 1)..Len(sendQueue') :
                   sendQueue'[n].data.type \in JobEvents
                   => \E i \in 1..Len(jobs') :
                         sendQueue'[n].data.job = job_to_dict(jobs'[i])
       /\ Len(sendQueue') < Len(sendQueue)
          => /\ sendQueue' = Tail(sendQueue)
             /\ \A ws \in WebSockets :
                   \/ received'[ws] = received[ws]
                   \/ received'[ws]
                         = Append(received[ws], Head(sendQueue).data)]_vars

\* C13 witness: an observer has been sent the snapshot of a progress of 30
\* and the store has moved on to 70 since
C13_Witness ==
    \E ws \in WebSockets :
       /\ wsState[ws] = "open"
       /\ \E n \in 1..Len(received[ws]) :
             /\ received[ws][n].type = "job_progress"
             /\ received[ws][n].job.progress = 30
       /\ jobs[1].progress = 70

\* C14: when a send_text raises, the tasks queued behind it stay queued,
\* the store and the registered observers stay as they are and the handler
\* stays in its broadcast; a handler one of whose sends raised returns its
\* success response with the store unchanged; no report is answered with a
\* server error; and the other observers are still sent every message.
C14_SendFailureIsolated ==
    /\ [](resp.code \in {0, 200, 404})
    /\ []C10_ObserverSeesSuffixInOrder
    /\ [][send_text_fail
            => /\ sendQueue' = Tail(sendQueue)
               /\ UNCHANGED <<jobs, logs, active, received, resp>>
               /\ {h.hid : h \in handlers'} = {h.hid : h \in handlers}]_vars
    /\ [][\A h \in handlers :
             (h.raised /\ handler_return(h))
             => /\ resp'.code = 200
                /\ resp'.op = h.op
                /\ UNCHANGED <<jobs, logs>>]_vars

\* C14 witness: a send of a handler's broadcast has raised, and the other
\* observer, still connected, has been sent the message of that broadcast
C14_Witness ==
    \E h \in handlers : \E ws \in WebSockets :
       /\ h.raised
       /\ Pending(h.hid) = {}
       /\ wsState[ws] = "open"
       /\ Len(active) = 2
       /\ received[ws] # <<>>
       /\ received[ws][Len(received[ws])] = published[Len(published)]

\* C15: disconnect(ws) leaves ws out of the registered list and leaves the
\* other registered websockets as they were, in their order; when ws was
\* not registered the list is unchanged and the ValueError is swallowed.
C15_DisconnectIdempotent ==
    [][\A ws \in ManagerSockets :
          disconnect(ws)
          => /\ ws \notin Range(active')
             /\ active' = SelectSeq(active, LAMBDA w : w # ws)
             /\ ws \notin Range(active) => active' = active]_vars

\* C15 witness: disconnect was called with a websocket that was not
\* registered while two others were
C15_Witness ==
    /\ resp.op = "disconnect"
    /\ resp.value_error
    /\ Len(active) >= 2

\* C16: once a send to an observer has failed, or its disconnect has been
\* signalled, the observer is not in the registered list any more.
C16_DeadObserverDropped ==
    [][/\ send_text_fail => Head(sendQueue).ws \notin Range(active')
       /\ \A ws \in WebSockets :
             websocket_disconnect(ws) => ws \notin Range(active')]_vars

\* C17: a progress report on a known job, handled while an observer is
\* registered, broadcasts one job_progress event with the committed row; the
\* handler goes on to broadcast a job_log event exactly when the report
\* carried a message, after the job_progress event, and that event has the
\* job id, the message and the level of the log row the report stored.
C17_ProgressEvents ==
    [][/\ \A p \in HubProgressPayload :
             (p.job_id \in JobIds /\ active # <<>> /\ api_progress(p, now'))
             => /\ published'
                      = Append(published,
                               [type |-> "job_progress",
                                job |-> job_to_dict(
                                           jobs'[TheVal(FindJob(p.job_id))])])
                /\ \E h \in handlers' \ handlers :
                      /\ h.message = p.message
                      /\ ~Truthy(p.message) => logs' = logs
                      /\ Truthy(p.message)
                         => /\ Len(logs') = Len(logs) + 1
                            /\ logs'[Len(logs')].job_id = h.job_id
                            /\ logs'[Len(logs')].message = TheVal(h.message)
                            /\ Some(logs'[Len(logs')].level) = h.level
       /\ \A h \in handlers :
             api_progress_log(h, now')
             => /\ Truthy(h.message)
                /\ active # <<>>
                   => /\ Len(published') = Len(published) + 1
                      /\ published'[Len(published')]
                            = [type |-> "job_log",
                               log |-> [job_id |-> h.job_id,
                                        message |-> TheVal(h.message),
                                        level |-> h.level,
                                        ts |-> isoformat(now')]]
       /\ \A h \in handlers :
             handler_return(h)
             => /\ published' = published
                /\ (h.op = "progress" /\ Truthy(h.message))
                   => h.pc = "log_broadcast"]_vars

\* the send_text tasks a step has created
NewTasks == SubSeq(sendQueue', Len(sendQueue) + 1, Len(sendQueue'))

\* C18: a complete report on a known job creates one send for each websocket
\* registered at the commit, every one of them a job_complete event whose
\* snapshot has the requested status, progress 100 and an end time; a
\* progress or complete report on an unknown job creates no send and
\* publishes nothing.
C18_TerminalEventSent ==
    [][/\ reports' # reports
          => \A p \in TerminalCompletePayload :
                (p.job_id \in JobIds /\ api_complete(p, now'))
                => /\ Len(sendQueue') = Len(sendQueue) + Len(active)
                   /\ \A ws \in Range(active) :
                         Cardinality({i \in 1..Len(NewTasks) :
                                         NewTasks[i].ws = ws}) = 1
                   /\ \A i \in 1..Len(NewTasks) :
                         /\ NewTasks[i].data.type = "job_complete"
                         /\ NewTasks[i].data.job.id = p.job_id
                         /\ NewTasks[i].data.job.status = p.status
                         /\ NewTasks[i].data.job.progress = 100
                         /\ NewTasks[i].data.job.end_time # None
       /\ resp' # resp
          => /\ \A p \in TerminalCompletePayload :
                   api_complete_not_found(p)
                   => UNCHANGED <<sendQueue, published, received>>
             /\ \A p \in ProgressPayload :
                   api_progress_not_found(p)
                   => UNCHANGED <<sendQueue, published, received>>
       /\ (sendQueue' # sendQueue /\ send_text_ok)
          => received' = [received EXCEPT ![Head(sendQueue).ws] =
                             Append(@, Head(sendQueue).data)]]_vars

\* both observers have been sent, and have received, the job_complete event
\* of one complete report
C18_Witness ==
    /\ Len(active) = 2
    /\ \A ws \in WebSockets :
          /\ wsState[ws] = "open"
          /\ Cardinality({i \in 1..Len(received[ws]) :
                             received[ws][i].type = "job_complete"}) = 1
          /\ \E i \in 1..Len(received[ws]) :
                /\ received[ws][i].type = "job_complete"
                /\ received[ws][i].job.status = "failed"
                /\ received[ws][i].job.progress = 100
                /\ received[ws][i].job.end_time # None

\* the job with the given id
JobById(id) == jobs[CHOOSE i \in 1..Len(jobs) : jobs[i].id = id]

\* C19: the job list returned for range 24h, 7d or 30d at clock reading t
\* holds exactly the jobs started at or after t minus 24 hours, 7 days or
\* 30 days, each once, in non-increasing start_time order; for any other
\* range it holds all jobs.
C19_JobListByRange ==
    [][(resp' # resp /\ resp'.op = "jobs")
       => \A range \in RangeInputs, t \in ListClock :
             api_jobs(range, t)
             => LET list == resp'.jobs
                    since == CASE range = "24h" -> t - 24
                               [] range = "7d"  -> t - 7 * 24
                               [] range = "30d" -> t - 30 * 24
                               [] OTHER -> 0
                    wanted == IF range \in {"24h", "7d", "30d"}
                              THEN {i \in 1..Len(jobs) :
                                       jobs[i].start_time >= since}
                              ELSE 1..Len(jobs)
                IN  /\ {list[i].id : i \in 1..Len(list)}
                          = {jobs[i].id : i \in wanted}
                    /\ Len(list) = Cardinality(wanted)
                    /\ \A i \in 1..Len(list) :
                          list[i] = job_to_dict(JobById(list[i].id))
                    /\ \A i, j \in 1..Len(list) :
                          i < j => JobById(list[i].id).start_time
                                      >= JobById(list[j].id).start_time]_vars

\* a list that leaves out the older of two jobs, the newer one started
\* exactly on the cutoff
C19_Witness ==
    /\ resp.op = "jobs"
    /\ Len(jobs) = 2
    /\ jobs[1].start_time = Epoch
    /\ jobs[2].start_time = Epoch + Hours24 + 1
    /\ Len(resp.jobs) = 1
    /\ resp.jobs[1].id = jobs[2].id

\* the rows of table job_logs that belong to the job
LogsOf(job_id) == {i \in 1..Len(logs) : logs[i].job_id = job_id}

\* C20: every list a log query may return holds rows of the job only, in
\* non-decreasing timestamp order, as many as are left after the offset and
\* at most limit of them when limit > 0; and a page of one entry at offset 0
\* followed by a page of one entry at offset 1 is a possible listing of the
\* first two entries: no entry is skipped or repeated.
C20_LogPaging ==
    \A job_id \in JobIds :
       /\ \A limit \in LimitInputs, offset \in OffsetInputs :
             \A rows \in LogRows(job_id, limit, offset) :
                LET left == IF Cardinality(LogsOf(job_id)) > offset
                            THEN Cardinality(LogsOf(job_id)) - offset ELSE 0
                IN  /\ \A i \in 1..Len(rows) : rows[i] \in LogsOf(job_id)
                    /\ \A i, j \in 1..Len(rows) :
                          i < j => /\ rows[i] # rows[j]
                                   /\ logs[rows[i]].ts <= logs[rows[j]].ts
                    /\ Len(rows) = IF limit > 0 THEN Min(limit, left)
                                   ELSE left
       /\ \A page1 \in LogRows(job_id, 1, 0), page2 \in LogRows(job_id, 1, 1) :
             page1 \o page2 \in LogRows(job_id, 2, 0)

\* C21: no step changes the id, job_name, scope, triggered_by or start_time
\* of a stored job or removes a job; a progress or complete report changes
\* no row other than the one whose id it names.
C21_ReportFrame ==
    [][jobs' # jobs
       => /\ Len(jobs') >= Len(jobs)
          /\ \A i \in 1..Len(jobs) :
                /\ jobs'[i].id = jobs[i].id
                /\ jobs'[i].job_name = jobs[i].job_name
                /\ jobs'[i].scope = jobs[i].scope
                /\ jobs'[i].triggered_by = jobs[i].triggered_by
                /\ jobs'[i].start_time = jobs[i].start_time
          /\ \A p \in ProgressPayload :
                (p.job_id \in JobIds /\ api_progress(p, now'))
                => \A i \in 1..Len(jobs) :
                      jobs[i].id # p.job_id => jobs'[i] = jobs[i]
          /\ \A p \in CompletePayload :
                (p.job_id \in JobIds /\ api_complete(p, now'))
                => \A i \in 1..Len(jobs) :
                      jobs[i].id # p.job_id => jobs'[i] = jobs[i]]_vars

\* the second of two jobs was completed, the first is as it was created
C21_Witness ==
    /\ Len(jobs) = 2
    /\ resp.op = "complete" /\ resp.code = 200
    /\ jobs[2].status = "failed" /\ jobs[2].job_name = "Deploy"
    /\ jobs[1].status = "running" /\ jobs[1].progress = 0
    /\ jobs[1].end_time = None

\* C22: a progress report on a job whose status is success or failed
\* returns ok, stores the progress it carries, appends its log entry when
\* it carries a message, and leaves the job's status and end_time as they
\* were.
C22_ProgressAfterTerminal ==
    [][reports' # reports
       => \A p \in ProgressPayload :
             (/\ p.job_id \in JobIds
              /\ JobById(p.job_id).status \in TerminalStatus
              /\ api_progress(p, now'))
             => LET k == CHOOSE i \in 1..Len(jobs) : jobs[i].id = p.job_id
                IN  /\ resp' = [op |-> "progress", code |-> 200, ok |-> TRUE]
                    /\ jobs'[k].status = jobs[k].status
                    /\ jobs'[k].end_time = jobs[k].end_time
                    /\ jobs'[k].end_time # None
                    /\ jobs'[k].progress
                          = IF p.progress # None THEN TheVal(p.progress)
                            ELSE jobs[k].progress
                    /\ IF p.message # None /\ TheVal(p.message) # ""
                       THEN /\ Len(logs') = Len(logs) + 1
                            /\ logs'[Len(logs')].job_id = p.job_id
                            /\ logs'[Len(logs')].message = TheVal(p.message)
                       ELSE logs' = logs]_vars

\* a job completed as success has then been reported at 50
C22_Witness ==
    /\ Len(jobs) = 1
    /\ resp = [op |-> "progress", code |-> 200, ok |-> TRUE]
    /\ jobs[1].status = "success"
    /\ jobs[1].end_time # None
    /\ jobs[1].progress = 50

\* C23: whatever the outcome of a request (connection error, timeout, HTTP
\* error, unparsable response), no exception leaves a callback of the
\* reporter and the run is not aborted.
C23_ReportFailuresSwallowed ==
    /\ ~run.raised
    /\ run.phase \in {"loaded", "started", "starting", "play", "task", "done"}

\* the run went to its end although both start requests failed before they
\* reached the server
C23_Witness ==
    /\ run.phase = "done"
    /\ jobs = <<>>
    /\ Len(SelectSeq(posts, LAMBDA r : r.op = "start")) = 2
    /\ Len(SelectSeq(run.emitted,
                     LAMBDA l : l.message =
                        <<"Unable to register job with dashboard API.">>)) = 2
    /\ run.tasks = MaxTasks

\* the progress requests that carry a number, and the complete requests
NumericPosts ==
    SelectSeq(posts, LAMBDA r : r.op = "progress" /\ r.progress # None)
CompletePosts == SelectSeq(posts, LAMBDA r : r.op = "complete")

\* C26: the numbers of the progress requests of a run are strictly
\* increasing; before the stats callback they are in 0..99 and there is no
\* complete request; after it, if the reporter knows a job id, the last two
\* requests are progress 100 and the only complete request, whose status is
\* failed exactly when a task failed without ignore_errors or a host was
\* unreachable; if it knows none, there is no complete request.
C26_ProgressIncreasingThenComplete ==
    /\ \A i, j \in 1..Len(NumericPosts) :
          i < j => TheVal(NumericPosts[i].progress)
                      < TheVal(NumericPosts[j].progress)
    /\ run.phase # "done"
       => /\ CompletePosts = <<>>
          /\ \A i \in 1..Len(NumericPosts) :
                TheVal(NumericPosts[i].progress) \in 0..99
    /\ (run.phase = "done" /\ Known(cb.job_id))
       => /\ Len(posts) >= 2
          /\ posts[Len(posts) - 1]
                = [op |-> "progress", job_id |-> TheVal(cb.job_id),
                   message |-> None, level |-> None, progress |-> Some(100)]
          /\ posts[Len(posts)].op = "complete"
          /\ posts[Len(posts)].job_id = TheVal(cb.job_id)
          /\ posts[Len(posts)].status = "failed" <=> run.failures
          /\ posts[Len(posts)].status \in {"failed", "success"}
          /\ Len(CompletePosts) = 1
          /\ \A i \in 1..(Len(NumericPosts) - 1) :
                TheVal(NumericPosts[i].progress) \in 0..99
    /\ (run.phase = "done" /\ ~Known(cb.job_id))
       => CompletePosts = <<>> /\ NumericPosts = <<>>

\* a run with a failed task posted 50, 99 and 100 and then completed the job
\* as failed
C26_Witness ==
    /\ run.phase = "done"
    /\ run.failures
    /\ [i \in 1..Len(NumericPosts) |-> TheVal(NumericPosts[i].progress)]
          = <<50, 99, 100>>
    /\ posts[Len(posts)].op = "complete"
    /\ posts[Len(posts)].status = "failed"

\* the lines the reporter has posted, as they were queued
LinePosts ==
    LET ps == SelectSeq(posts,
                        LAMBDA r : r.op = "progress" /\ r.message # None)
    IN  [i \in 1..Len(ps) |-> [message |-> TheVal(ps[i].message),
                               level |-> TheVal(ps[i].level)]]

\* C27: the lines posted so far followed by the lines in the queue are the
\* lines emitted so far, in the order they were emitted: no line is lost,
\* posted twice or overtaken; no line stays in the queue once the reporter
\* has a job id; and the requests a callback sends all go to the job id the
\* reporter then has.
C27_PendingLinesInOrder ==
    /\ [](LinePosts \o cb.pending_lines = run.emitted)
    /\ [](Known(cb.job_id) => cb.pending_lines = <<>>)
    /\ [][\A i \in (Len(posts) + 1)..Len(posts') :
            posts'[i].op = "progress"
            => Known(cb'.job_id) /\ posts'[i].job_id = TheVal(cb'.job_id)]_vars

\* the first start request failed and its lines were held; the second one
\* gave a job id and the held lines have been posted
C27_Witness ==
    /\ Len(jobs) = 1
    /\ cb.job_id = Some(jobs[1].id)
    /\ run.env_job_id = None
    /\ cb.pending_lines = <<>>
    /\ Len(LinePosts) >= 4
    /\ LinePosts[1].message = <<"Unable to register job with dashboard API.">>
    /\ LinePosts[1].level = "error"

\* C28: the server holds at most one job for the run of the reporter,
\* whatever became of its start requests.
C28_OneJobPerRun ==
    Len(jobs) <= 1

\* C24: a publish creates one send for each websocket registered when it
\* starts, in the order of registration, behind the sends already in flight;
\* a websocket that connects, closes or is unregistered while sends are in
\* flight leaves those sends, and what the other websockets have received,
\* as they are; the sends in flight are run one by one, oldest first, and a
\* send to an open websocket delivers its message.
C24_PublishSnapshot ==
    [][/\ Len(sendQueue') > Len(sendQueue)
          => /\ sendQueue' = sendQueue \o NewTasks
             /\ [i \in 1..Len(NewTasks) |-> NewTasks[i].ws] = active
             /\ active' = active
       /\ (active' # active \/ wsState' # wsState)
          => /\ sendQueue' = sendQueue
             /\ \A w \in WebSockets :
                   wsState'[w] = wsState[w] => received'[w] = received[w]
       /\ Len(sendQueue') < Len(sendQueue)
          => /\ sendQueue' = Tail(sendQueue)
             /\ active' = active
             /\ \A w \in WebSockets :
                   received'[w] =
                      IF w = Head(sendQueue).ws /\ wsState[w] = "open"
                      THEN Append(received[w], Head(sendQueue).data)
                      ELSE received[w]]_vars

\* ws1 has been unregistered and the send of the one publish to it has
\* failed; the send of that publish to ws2 has delivered its message, and the
\* handler has not yet returned from the publish
C24_Witness ==
    /\ sendQueue = <<>>
    /\ active = <<"ws2">>
    /\ wsState["ws1"] = "closed"
    /\ wsState["ws2"] = "open"
    /\ Len(published) = 1
    /\ received["ws2"] = published
    /\ \E h \in handlers : h.raised
\* C25: a complete report that follows an accepted complete report and
\* names a job that already has the status it asks for, progress 100 and an
\* end time is answered ok; it leaves the job's status and progress, and
\* every field of every job but that job's end_time, as they were, and the
\* log rows there were stay.
C25_CompleteRetry ==
    [][(reports' # reports /\ resp.op = "complete" /\ resp.code = 200)
          => \A p \in CompletePayload : \A i \in 1..Len(jobs) :
                (/\ jobs[i].id = p.job_id
                 /\ jobs[i].status = p.status
                 /\ jobs[i].progress = 100
                 /\ jobs[i].end_time # None
                 /\ now' \in utcnow
                 /\ api_complete(p, now'))
                => /\ resp' = [op |-> "complete", code |-> 200, ok |-> TRUE]
                   /\ jobs'[i].status = jobs[i].status
                   /\ jobs'[i].progress = jobs[i].progress
                   /\ jobs' = [jobs EXCEPT ![i].end_time = Some(now')]
                   /\ SubSeq(logs', 1, Len(logs)) = logs]_vars

\* the complete report with status success and message "done" was sent
\* twice for one job and answered ok: the job is success at 100 and has two
\* "done" rows
C25_Witness ==
    /\ resp = [op |-> "complete", code |-> 200, ok |-> TRUE]
    /\ \E i \in 1..Len(jobs) :
          /\ jobs[i].status = "success"
          /\ jobs[i].progress = 100
          /\ jobs[i].end_time # None
          /\ Cardinality({k \in 1..Len(logs) :
                             /\ logs[k].job_id = jobs[i].id
                             /\ logs[k].message = "done"}) = 2
\* C29, as claimed: in every state a job that is success or failed has
\* progress 100 and an end time, and a job that is running has no end time.
C29_TerminalInvariant ==
    \A i \in 1..Len(jobs) :
       /\ jobs[i].status \in TerminalStatus
          => jobs[i].progress = 100 /\ jobs[i].end_time # None
       /\ jobs[i].status = "running" => jobs[i].end_time = None

\* C29, amended: in every state a job that is success or failed has an end
\* time and a job without an end time is running; the progress of a job that
\* is success or failed changes only to 100, by a complete report, or with
\* the status and the end time staying as they are, by a progress report.
C29_TerminalFields ==
    /\ [](\A i \in 1..Len(jobs) :
            /\ jobs[i].status \in TerminalStatus => jobs[i].end_time # None
            /\ jobs[i].end_time = None => jobs[i].status = "running")
    /\ [][\A i \in 1..Len(jobs) :
            (/\ jobs[i].status \in TerminalStatus
             /\ jobs'[i].progress # jobs[i].progress)
            => \/ /\ jobs'[i].progress = 100
                  /\ jobs'[i].end_time # None
                  /\ resp'.op = "complete"
               \/ /\ jobs'[i].status = jobs[i].status
                  /\ jobs'[i].end_time = jobs[i].end_time
                  /\ resp'.op = "progress"]_vars

\* a job was completed as failed and a later progress report, the last
\* request answered, has left it failed, ended, and at a progress below 100
C29_Witness ==
    /\ resp.op = "progress" /\ resp.code = 200
    /\ \E i \in 1..Len(jobs) :
          /\ jobs[i].status = "failed"
          /\ jobs[i].end_time # None
          /\ jobs[i].progress < 100
\* the positions of the job events on the job id in what ws has received
JobEventsOf(ws, id) ==
    {n \in 1..Len(received[ws]) :
        /\ received[ws][n].type \in JobEvents
        /\ received[ws][n].job.id = id}

\* the last job event on the job id that ws has received
LastJobEvent(ws, id) ==
    received[ws][CHOOSE n \in JobEventsOf(ws, id) :
                    \A m \in JobEventsOf(ws, id) : m <= n]

\* C30: when no report handler is running, the snapshot in the last job
\* event an observer that is still connected has received on a job is the
\* job as it is in the store.
C30_LiveViewConverges ==
    (handlers = {} /\ session = NoSession)
    => \A ws \in WebSockets : \A i \in 1..Len(jobs) :
          (wsState[ws] = "open" /\ JobEventsOf(ws, jobs[i].id) # {})
          => LastJobEvent(ws, jobs[i].id).job = job_to_dict(jobs[i])

\* no report handler is running; both observers are connected and have
\* received the event of a progress report of 30 and, as the last job event,
\* that of a progress report of 70, and the store is at 70
C30_Witness ==
    /\ handlers = {} /\ session = NoSession
    /\ jobs # <<>> /\ jobs[1].progress = 70
    /\ \A ws \in WebSockets :
          /\ wsState[ws] = "open"
          /\ \E n \in JobEventsOf(ws, jobs[1].id) :
                /\ received[ws][n].type = "job_progress"
                /\ received[ws][n].job.progress = 30
          /\ LastJobEvent(ws, jobs[1].id).job.progress = 70
====
